---------------------------- MODULE Spec2Model ----------------------------
(***************************************************************************)
(* The percent-variance utilities of the PCA notebook                      *)
(* (src/Activity-dr-1-sol.ipynb): percvar(v) and perck(s, p).              *)
(*                                                                         *)
(* The notebook computes on numpy float64 arrays.  The model keeps the     *)
(* shape of IEEE-754 binary arithmetic and scales its size down: a float   *)
(* is a whole number of units of 2^-F that has at most P significant bits, *)
(* every operation rounds its exact result to the nearest such number      *)
(* (ties to even), results above MaxFinite become Inf, results below       *)
(* MinNormal lose precision gradually (subnormals), and 0/0 is NaN.        *)
(* float64 itself is P = 53, F = 1074, EMax = 2045 - 1074.                 *)
(*                                                                         *)
(* The vectors are float64 arrays of any length and any finite entries,    *)
(* which is what np.linalg.eig and np.linalg.svd hand to percvar.          *)
(*                                                                         *)
(* The second part is the text-classification notebook                     *)
(* (src/unnamed/part_001): its cells run in order on the two data files,   *)
(* and its function countValues.  Its specification is TextSpec.           *)
(***************************************************************************)
EXTENDS Integers, Sequences, FiniteSets

VARIABLES
    v,      \* the vector handed to percvar (eig_vals, s**2, s in the notebook)
    pc,     \* which call of the session ran last
    ret,    \* what percvar(v) returned: pct, pv and how the call ended
    w,      \* the argument of the second percvar call (c*v, v/d or pct)
    c,      \* the scalar that made w out of v
    ret2,   \* what percvar(w) returned
    s,      \* the vector handed to perck
    p,      \* the target handed to perck
    k,      \* what perck(s, p) returned
    \* the text-classification notebook
    train_dat,      \* the lines of data/train.dat
    test_dat,       \* the lines of data/test.dat
    cell,           \* the cell that ran last
    stdout,         \* what was printed
    raised,         \* the exception a cell ended with
    training_data, testing_data,
    train_list, training_list, given_class,
    test_list, testing_list,
    train_features, test_features, features,
    tf,             \* the vocabulary the vectorizer was made with
    training_M, testing_M,
    output          \* the argument of countValues

\* the names of the text-classification notebook
text == <<train_dat, test_dat, cell, stdout, raised, training_data,
          testing_data, train_list, training_list, given_class, test_list,
          testing_list, train_features, test_features, features, tf,
          training_M, testing_M, output>>

\* the names of the PCA notebook
numeric == <<v, pc, ret, w, c, ret2, s, p, k>>

vars == <<numeric, text>>

---------------------------------------------------------------------------
(* Bounds of the model.                                                    *)

\* significant bits of a float (53 in float64)
P == 5
\* a float is a multiple of 2^-F (1074 in float64)
F == 10
\* largest exponent of the unit: MaxFinite = (2^P - 1) * 2^EMax units
EMax == 9
\* longest input vector
MaxLen == 3

---------------------------------------------------------------------------
(* float64, scaled down.                                                   *)

RECURSIVE Pow2(_)
Pow2(n) == IF n <= 0 THEN 1 ELSE 2 * Pow2(n - 1)

\* 1.0
One == Pow2(F)
\* the smallest float with full precision; below it floats are subnormal
MinNormal == Pow2(P - 1)
MaxFinite == (Pow2(P) - 1) * Pow2(EMax)
\* +inf: compares above every finite float
Inf == Pow2(P + EMax)
\* nan: a value apart; every comparison with it is false
NaN == 0 - 2 * Inf

NegInf == 0 - Inf

IsFinite(x) == x # NaN /\ x # Inf /\ x # NegInf

\* a >= b on floats ("s[i] >= p"): false when either side is nan
FGe(a, b) == a # NaN /\ b # NaN /\ a >= b

FAbs(x) == IF x = NaN THEN NaN ELSE IF x < 0 THEN 0 - x ELSE x

\* the exponent at which num/den has at most P significant bits
RECURSIVE Expo(_, _, _)
Expo(num, den, e) ==
    IF num < den * Pow2(P + e) THEN e ELSE Expo(num, den, e + 1)

\* num/den rounded to the nearest integer, ties to even
RoundNearestEven(num, den) ==
    LET q == num \div den
        r == num % den
    IN  IF 2 * r < den THEN q
        ELSE IF 2 * r > den THEN q + 1
        ELSE IF q % 2 = 0 THEN q ELSE q + 1

\* the float nearest to the exact num/den units (num >= 0, den > 0)
Round(num, den) ==
    LET e == Expo(num, den, 0)
        n == RoundNearestEven(num, den * Pow2(e)) * Pow2(e)
    IN  IF n > MaxFinite THEN Inf ELSE n

\* a + b on floats
FAdd(a, b) ==
    IF a = NaN \/ b = NaN THEN NaN
    ELSE IF a = Inf THEN (IF b = NegInf THEN NaN ELSE Inf)
    ELSE IF a = NegInf THEN (IF b = Inf THEN NaN ELSE NegInf)
    ELSE IF b = Inf \/ b = NegInf THEN b
    ELSE IF a + b >= 0 THEN Round(a + b, 1) ELSE 0 - Round(0 - (a + b), 1)

\* the magnitude of a / b, a and b not negative
DivMagnitude(a, b) ==
    IF b = 0 THEN (IF a = 0 THEN NaN ELSE Inf)
    ELSE IF b = Inf THEN (IF a = Inf THEN NaN ELSE 0)
    ELSE IF a = Inf THEN Inf
    ELSE Round(a * One, b)

\* a / b on floats
FDiv(a, b) ==
    IF a = NaN \/ b = NaN THEN NaN
    ELSE LET m == DivMagnitude(FAbs(a), FAbs(b))
         IN  IF m = NaN \/ (a < 0) = (b < 0) THEN m ELSE 0 - m

\* the floating-point condition a / b signals (numpy's "invalid value",
\* "divide by zero")
DivFlag(a, b) ==
    IF a = NaN \/ b = NaN THEN "none"
    ELSE IF b = 0 THEN (IF a = 0 THEN "invalid" ELSE "divide")
    ELSE IF FAbs(b) = Inf /\ FAbs(a) = Inf THEN "invalid"
    ELSE "none"

\* a * b on finite floats
FMul(a, b) ==
    LET m == Round(FAbs(a) * FAbs(b), One)
    IN  IF (a < 0) = (b < 0) THEN m ELSE 0 - m

---------------------------------------------------------------------------
(* numpy's array operations, as percvar uses them.                         *)

\* np.abs forgotten
NoAbs(x) == x

np_abs(x) == [i \in 1..Len(x) |-> FAbs(x[i])]

\* the place of a float in numpy's sort order: nan sorts last
SortKey(x) == IF x = NaN THEN Inf + 1 ELSE x

RECURSIVE Insert(_, _)
Insert(x, sorted) ==
    IF sorted = <<>> THEN <<x>>
    ELSE IF SortKey(x) <= SortKey(Head(sorted)) THEN <<x>> \o sorted
    ELSE <<Head(sorted)>> \o Insert(x, Tail(sorted))

\* np.sort's result dropped (it sorts a copy): the array as it was
NoSort(x) == x

\* np.unique in the place of np.sort: sorted, equal entries merged
RECURSIVE Unique(_)
Unique(x) ==
    IF x = <<>> THEN <<>>
    ELSE LET rest == Unique(Tail(x))
         IN  IF \E i \in 1..Len(rest) : rest[i] = Head(x)
             THEN rest ELSE Insert(Head(x), rest)

\* np.sort: ascending
RECURSIVE np_sort(_)
np_sort(x) == IF x = <<>> THEN <<>> ELSE Insert(Head(x), np_sort(Tail(x)))

\* the reversal forgotten
NotReversed(x) == x

\* s[::-1]
Reversed(x) == [i \in 1..Len(x) |-> x[Len(x) + 1 - i]]

\* np.sum: the entries added left to right, each addition rounded
\* (numpy adds an array of fewer than 8 entries in this order)
RECURSIVE np_sum(_)
np_sum(x) ==
    IF x = <<>> THEN 0
    ELSE FAdd(np_sum(SubSeq(x, 1, Len(x) - 1)), x[Len(x)])

\* the running sums forgotten: the percents themselves
NoCumsum(x) == x

\* np.cumsum: the running sums, each addition rounded
RECURSIVE np_cumsum(_)
np_cumsum(x) ==
    IF x = <<>> THEN <<>>
    ELSE IF Len(x) = 1 THEN x
    ELSE LET front == np_cumsum(SubSeq(x, 1, Len(x) - 1))
         IN  Append(front, FAdd(front[Len(front)], x[Len(x)]))

\* the normalisation forgotten
NoDivide(x, t) == x

\* s / np.sum(s): every entry divided by the scalar t
np_divide(x, t) == [i \in 1..Len(x) |-> FDiv(x[i], t)]

\* numpy's floating-point error handling (np.seterr): "warn" unless changed,
\* and the notebook never changes it
NpErrState == "warn"

---------------------------------------------------------------------------
(* The notebook's two functions.                                           *)

\* a sort in place (v.sort()) in the place of np.sort: the caller's array
\* comes back sorted
SortedInPlace(x) == np_sort(x)

\* the caller's array after percvar(v): np.abs and np.sort return new arrays,
\* s[::-1] is a view of the sorted copy, and s/np.sum(s) is bound to a new
\* array (it is not s /= ...), so v is never written
percvar_arg(x) == x

\* def percvar(v)
percvar(x) ==
    LET s1 == np_sort(np_abs(x))
        s2 == Reversed(s1)
        total == np_sum(s2)
        s3 == np_divide(s2, total)
        flags == {DivFlag(s2[i], total) : i \in 1..Len(s2)} \ {"none"}
    IN  [pct |-> s3,
         pv |-> np_cumsum(s3),
         warn |-> flags,
         exc |-> IF NpErrState = "raise" /\ flags # {}
                 THEN "FloatingPointError" ELSE "none"]

\* the comparison written > instead of >=
RECURSIVE PerckFromStrict(_, _, _)
PerckFromStrict(x, q, i) ==
    IF i > Len(x) THEN Len(x)
    ELSE IF x[i] # NaN /\ x[i] > q THEN i
    ELSE PerckFromStrict(x, q, i + 1)

\* the final "return len(s)" left out: the loop falls through, no count
RECURSIVE PerckFromNoFallback(_, _, _)
PerckFromNoFallback(x, q, i) ==
    IF i > Len(x) THEN 0
    ELSE IF FGe(x[i], q) THEN i
    ELSE PerckFromNoFallback(x, q, i + 1)

\* perck's loop from index i (1-based here, so the result is i, not i+1)
RECURSIVE PerckFrom(_, _, _)
PerckFrom(x, q, i) ==
    IF i > Len(x) THEN Len(x)
    ELSE IF FGe(x[i], q) THEN i
    ELSE PerckFrom(x, q, i + 1)

\* "return i" instead of "return i+1": the 0-based index
perckZeroBased(x, q) ==
    IF \E i \in 1..Len(x) : FGe(x[i], q)
    THEN PerckFrom(x, q, 1) - 1 ELSE Len(x)

\* def perck(s, p)
perck(x, q) == PerckFrom(x, q, 1)

\* the caller's array after perck(s, p): the loop only reads s[i]
perck_arg(x) == x

\* the vector v with entries i and j exchanged and entry m negated (m = 0:
\* none): a permutation and sign flip of v
PermFlip(x, i, j, m) ==
    [n \in 1..Len(x) |->
        LET y == IF n = i THEN x[j] ELSE IF n = j THEN x[i] ELSE x[n]
        IN  IF n = m THEN 0 - y ELSE y]

---------------------------------------------------------------------------
(* The worked examples of the notebook have thirteen entries of two        *)
(* decimals, and their answers turn on the fourth decimal of a running     *)
(* sum: more than P bits can hold.  They are computed in a wider float of  *)
(* the same kind: units of 2^-FWide, at most PWide significant bits, ties  *)
(* to even.  The examples are positive and stay far from overflow and from *)
(* a zero sum, so this format has no inf and no nan.  Products of two      *)
(* floats do not fit the integers here: division and multiplication go bit *)
(* by bit.                                                                 *)

PWide == P + 11
FWide == F + 6
OneWide == Pow2(FWide)

\* the exponent at which q has at most PWide significant bits
RECURSIVE ExpoWide(_, _)
ExpoWide(q, e) == IF q < Pow2(PWide + e) THEN e ELSE ExpoWide(q, e + 1)

\* q + r/den units (0 <= r < den) rounded to the nearest float, ties to even
RoundWide(q, r, den) ==
    LET e == ExpoWide(q, 0)
        d == Pow2(e)
        f == q \div d
        rem == q % d
        up == IF e = 0
              THEN 2 * r > den \/ (2 * r = den /\ f % 2 = 1)
              ELSE \/ 2 * rem > d
                   \/ 2 * rem = d /\ (r > 0 \/ f % 2 = 1)
    IN  (IF up THEN f + 1 ELSE f) * d

\* the decimal literal n/100 as a float
DecimalWide(n) == RoundWide((n * OneWide) \div 100, (n * OneWide) % 100, 100)

FAddWide(a, b) == RoundWide(a + b, 0, 1)

\* n more bits of the quotient q, remainder r, of a division by b
RECURSIVE DivBits(_, _, _, _)
DivBits(q, r, b, n) ==
    IF n = 0 THEN <<q, r>>
    ELSE IF 2 * r >= b THEN DivBits(2 * q + 1, 2 * r - b, b, n - 1)
    ELSE DivBits(2 * q, 2 * r, b, n - 1)

\* a / b, b > 0
FDivWide(a, b) ==
    LET qr == DivBits(a \div b, a % b, b, FWide)
    IN  RoundWide(qr[1], qr[2], b)

\* <<q, r>> with a * b = q * OneWide + r, from the bits of b
RECURSIVE MulBits(_, _)
MulBits(a, b) ==
    IF b = 0 THEN <<0, 0>>
    ELSE LET h == MulBits(a, b \div 2)
             r == 2 * h[2] + (b % 2) * a
         IN  <<2 * h[1] + r \div OneWide, r % OneWide>>

\* the square forgotten: s in the place of s**2
NoSquare(a, b) == a

\* a * b
FMulWide(a, b) ==
    LET qr == MulBits(a, b)
    IN  RoundWide(qr[1], qr[2], OneWide)

\* x[from] + x[from + 8] + ... : one of the 8 partial sums of np.sum
RECURSIVE Strided(_, _, _)
Strided(x, from, blocks) ==
    IF blocks = 1 THEN x[from]
    ELSE FAddWide(Strided(x, from, blocks - 1), x[from + 8 * (blocks - 1)])

\* acc + x[from] + ... + x[to], left to right
RECURSIVE AddTail(_, _, _, _)
AddTail(acc, x, from, to) ==
    IF from > to THEN acc
    ELSE AddTail(FAddWide(acc, x[from]), x, from + 1, to)

\* np.sum of 8 to 128 entries: 8 partial sums over the whole blocks of 8,
\* added as a tree, then the entries left over; fewer than 8 entries are
\* added left to right
np_sumWide(x) ==
    IF Len(x) < 8 THEN AddTail(0, x, 1, Len(x))
    ELSE LET blocks == Len(x) \div 8
             r == [j \in 1..8 |-> Strided(x, j, blocks)]
             tree == FAddWide(
                        FAddWide(FAddWide(r[1], r[2]), FAddWide(r[3], r[4])),
                        FAddWide(FAddWide(r[5], r[6]), FAddWide(r[7], r[8])))
         IN  AddTail(tree, x, 8 * blocks + 1, Len(x))

\* np.cumsum
RECURSIVE np_cumsumWide(_)
np_cumsumWide(x) ==
    IF Len(x) <= 1 THEN x
    ELSE LET front == np_cumsumWide(SubSeq(x, 1, Len(x) - 1))
         IN  Append(front, FAddWide(front[Len(front)], x[Len(x)]))

\* s / np.sum(s)
np_divideWide(x, t) == [i \in 1..Len(x) |-> FDivWide(x[i], t)]

\* percvar on wide floats
percvarWide(x) ==
    LET s1 == np_sort(np_abs(x))
        s2 == Reversed(s1)
        total == np_sumWide(s2)
        s3 == np_divideWide(s2, total)
    IN  [pct |-> s3, pv |-> np_cumsumWide(s3), warn |-> {}, exc |-> "none"]

\* the eigenvalues of the wine covariance matrix, in hundredths, in the order
\* np.linalg.eig gave them
EigValsHundredths ==
    <<473, 251, 145, 92, 86, 65, 55, 10, 35, 17, 29, 23, 25>>

\* the singular values of the standardised wine data, in hundredths
SingValsHundredths ==
    <<2894, 2108, 1604, 1279, 1232, 1069, 990, 788, 717, 668, 634, 548, 429>>

FromHundredths(h) == [i \in 1..Len(h) |-> DecimalWide(h[i])]

eig_vals == FromHundredths(EigValsHundredths)

sing_vals == FromHundredths(SingValsHundredths)

\* s**2
Squared(x) == [i \in 1..Len(x) |-> FMulWide(x[i], x[i])]

\* the percentages the notebook asks for
PercentTargets == {40, 60, 80, 90, 95}

---------------------------------------------------------------------------
(* The text-classification notebook: bounds and functions.                 *)
(* A Python string is the sequence of its characters.                      *)

\* most lines of data/train.dat
MaxTrainLines == 1
\* most lines of data/test.dat
MaxTestLines == 2
\* longest argument of countValues
MaxOut == 3

\* a name that no cell has assigned yet
Undefined == "undefined"

\* no exception
NoError == "none"

\* the index of the first sep in x
FirstAt(x, sep) ==
    CHOOSE i \in 1..Len(x) : x[i] = sep /\ \A j \in 1..(i - 1) : x[j] # sep

\* str.split(sep): the pieces between the occurrences of sep, the empty
\* ones too; a string without sep is its own single piece
RECURSIVE Split(_, _)
Split(x, sep) ==
    IF \A i \in 1..Len(x) : x[i] # sep THEN <<x>>
    ELSE <<SubSeq(x, 1, FirstAt(x, sep) - 1)>>
            \o Split(SubSeq(x, FirstAt(x, sep) + 1, Len(x)), sep)

\* the entries of the last row only
select_featureLastRow(data) ==
    IF data = <<>> THEN {}
    ELSE {data[Len(data)][i] : i \in 1..Len(data[Len(data)])}

\* select_feature(data): every f of every row added to a set
RECURSIVE select_feature(_)
select_feature(data) ==
    IF data = <<>> THEN {}
    ELSE select_feature(SubSeq(data, 1, Len(data) - 1))
            \cup {data[Len(data)][i] : i \in 1..Len(data[Len(data)])}

\* the loop with the append of line 69 not commented out
LoadTrainAppending(file) == [i \in 1..Len(file) |-> Split(file[i], "\t")]

\* training_data after the loop over data/train.dat: the loop prints the
\* line and appends nothing (line 69 is a comment)
LoadTrain(file) == <<>>

\* testing_data after the loop over data/test.dat
LoadTest(file) == [i \in 1..Len(file) |-> Split(file[i], "\t")]

\* the loop over training_data, row by row: td[1] of a row without a tab
\* is an IndexError, after given_class has taken td[0]
RECURSIVE BuildTrain(_)
BuildTrain(data) ==
    IF data = <<>>
    THEN [given_class |-> <<>>, training_list |-> <<>>, train_list |-> <<>>,
          raised |-> NoError]
    ELSE LET before == BuildTrain(SubSeq(data, 1, Len(data) - 1))
             td == data[Len(data)]
         IN  IF before.raised # NoError THEN before
             ELSE IF Len(td) < 2
             THEN [before EXCEPT !.given_class = Append(@, td[1]),
                                 !.raised = "IndexError"]
             ELSE [given_class |-> Append(before.given_class, td[1]),
                   training_list |-> Append(before.training_list,
                                            Split(td[2], " ")),
                   train_list |-> Append(before.train_list, td[2]),
                   raised |-> NoError]

\* the loop over testing_data: split always returns a first piece
BuildTest(data) ==
    [test_list |-> [i \in 1..Len(data) |-> data[i][1]],
     testing_list |-> [i \in 1..Len(data) |-> Split(data[i][1], " ")]]

\* the union in the place of the intersection
Union(a, b) == a \cup b

\* train_features.intersection(test_features)
intersection(a, b) == a \cap b

\* list(features): the members in the order the set iterates them, which
\* Python does not fix
Lists(S) ==
    {q \in [1..Cardinality(S) -> S] :
        \A i, j \in 1..Cardinality(S) : q[i] = q[j] => i = j}

\* tf.fit_transform(docs) with a fixed vocabulary: scikit-learn refuses an
\* empty vocabulary ("empty vocabulary passed to fit"); otherwise the
\* matrix has a row per document and a column per vocabulary entry
fit_transform(vocabulary, docs) ==
    IF vocabulary = <<>>
    THEN [raised |-> "ValueError", nrows |-> 0, ncols |-> 0]
    ELSE [raised |-> NoError, nrows |-> Len(docs), ncols |-> Len(vocabulary)]

\* the else branch counting only the entries '0'
RECURSIVE countValuesOnlyZero(_)
countValuesOnlyZero(x) ==
    IF x = <<>> THEN [one |-> 0, zero |-> 0]
    ELSE LET before == countValuesOnlyZero(SubSeq(x, 1, Len(x) - 1))
         IN  IF x[Len(x)] = "1" THEN [before EXCEPT !.one = @ + 1]
             ELSE IF x[Len(x)] = "0" THEN [before EXCEPT !.zero = @ + 1]
             ELSE before

\* countValues(output): the two counts it prints
RECURSIVE countValues(_)
countValues(x) ==
    IF x = <<>> THEN [one |-> 0, zero |-> 0]
    ELSE LET before == countValues(SubSeq(x, 1, Len(x) - 1))
         IN  IF x[Len(x)] = "1" THEN [before EXCEPT !.one = @ + 1]
             ELSE [before EXCEPT !.zero = @ + 1]

\* lines of the data files: "1<tab>a b", "0<tab>b", "a b", "a a" and the
\* empty line, each with the newline the file iterator leaves on it
Lines ==
    { <<"1", "\t", "a", " ", "b", "\n">>,
      <<"0", "\t", "b", "\n">>,
      <<"a", " ", "b", "\n">>,
      <<"a", " ", "a", "\n">>,
      <<"\n">> }

Files(n) == UNION {[1..m -> Lines] : m \in 0..n}

\* the predictions countValues may be given
Outputs == UNION {[1..m -> {"1", "0", "-1"}] : m \in 0..MaxOut}

\* the text-classification notebook before any of its cells has run, with
\* the data files as given
TextStart(train, test) ==
    /\ train_dat = train
    /\ test_dat = test
    /\ cell = "new"
    /\ stdout = <<>>
    /\ raised = NoError
    /\ training_data = Undefined /\ testing_data = Undefined
    /\ train_list = Undefined /\ training_list = Undefined
    /\ given_class = Undefined
    /\ test_list = Undefined /\ testing_list = Undefined
    /\ train_features = Undefined /\ test_features = Undefined
    /\ features = Undefined
    /\ tf = Undefined
    /\ training_M = Undefined /\ testing_M = Undefined
    /\ output = Undefined

---------------------------------------------------------------------------
(* The inputs of the session.                                              *)

\* the smallest positive float
Tiny == Pow2(0)
\* the largest power of two that is finite
Big == Pow2(P - 1 + EMax)

\* entries of an input vector: 0, 2^-F, 1.0, -1.0, 2.0, -3.0 and Big
InputVals == {0, Tiny, One, 0 - One, 2 * One, 0 - 3 * One, Big}

Vectors == UNION {[1..n -> InputVals] : n \in 0..MaxLen}

\* the float nearest to 0.1
Tenth == Round(One, 10)

\* the scalars c of c*v: -1.0, 0.1, 0.5, 2.0, 3.0
Scalars == {0 - One, Tenth, One \div 2, 2 * One, 3 * One}

\* the divisors d of v/d (m - 1 in s**2/(m - 1)): 3.0
Divisors == {3 * One}

\* the targets p: -0.5, 0, 0.25, 0.5, 1.0, 1.5
Targets == {0 - One \div 2, 0, One \div 4, One \div 2, One, One + One \div 2}

NoRet == [pct |-> <<>>, pv |-> <<>>, warn |-> {}, exc |-> "none"]

Init ==
    /\ v \in Vectors
    /\ pc = "start"
    /\ ret = NoRet
    /\ w = <<>>
    /\ c = One
    /\ ret2 = NoRet
    /\ s = <<>>
    /\ p = 0
    /\ k = 0
    /\ TextStart(<<>>, <<>>)

\* pct, pv = percvar(v)
Percvar ==
    /\ pc = "start"
    /\ ret' = percvar(v)
    /\ v' = percvar_arg(v)
    /\ pc' = "called"
    /\ UNCHANGED <<w, c, ret2, s, p, k, text>>

\* perck(pv, p) on the prefix vector percvar returned
Perck ==
    /\ pc = "called"
    /\ ret.exc = "none"
    /\ \E q \in Targets :
        /\ s' = ret.pv
        /\ p' = q
        /\ k' = perck(ret.pv, q)
    /\ ret' = [ret EXCEPT !.pv = perck_arg(ret.pv)]
    /\ pc' = "selected"
    /\ UNCHANGED <<v, w, c, ret2, text>>

\* perck(s, p) on a vector that percvar did not make
PerckDirect ==
    /\ pc = "start"
    /\ \E q \in Targets :
        /\ s' = v
        /\ p' = q
        /\ k' = perck(v, q)
    /\ v' = perck_arg(v)
    /\ pc' = "direct"
    /\ UNCHANGED <<ret, w, c, ret2, text>>

\* percvar(c * v)
PercvarScaled ==
    /\ pc = "called"
    /\ \E a \in Scalars :
        /\ c' = a
        /\ w' = [i \in 1..Len(v) |-> FMul(a, v[i])]
        /\ ret2' = percvar([i \in 1..Len(v) |-> FMul(a, v[i])])
    /\ pc' = "scaled"
    /\ UNCHANGED <<v, ret, s, p, k, text>>

\* percvar(v / d): the eigenvalues s**2/(m - 1) from the squares s**2
PercvarDivided ==
    /\ pc = "called"
    /\ \E d \in Divisors :
        /\ c' = d
        /\ w' = [i \in 1..Len(v) |-> FDiv(v[i], d)]
        /\ ret2' = percvar([i \in 1..Len(v) |-> FDiv(v[i], d)])
    /\ pc' = "divided"
    /\ UNCHANGED <<v, ret, s, p, k, text>>

\* percvar(pct): the transform applied to its own percents
PercvarAgain ==
    /\ pc = "called"
    /\ ret.exc = "none"
    /\ w' = ret.pct
    /\ ret2' = percvar(ret.pct)
    /\ pc' = "again"
    /\ UNCHANGED <<v, ret, c, s, p, k, text>>

\* percvar(w) for w a permutation and sign flip of v, the same v included:
\* two neighbours exchanged or none, and the second of them negated or not
PercvarPermuted ==
    /\ pc = "called"
    /\ \E i \in 1..Len(v), j \in 1..Len(v), m \in 0..Len(v) :
        /\ j \in {i, i + 1}
        /\ m \in {0, j}
        /\ w' = PermFlip(v, i, j, m)
        /\ ret2' = percvar(PermFlip(v, i, j, m))
    /\ pc' = "permuted"
    /\ UNCHANGED <<v, ret, c, s, p, k, text>>

\* the cells of the worked examples: percvar on the eigenvalues, on the
\* singular values and on their squares, then perck for one of the
\* percentages.  They run on the notebook's data and take no vector v.
WorkedExample ==
    /\ pc = "start"
    /\ v = <<>>
    /\ \E x \in {eig_vals, sing_vals, Squared(sing_vals)}, q \in PercentTargets :
        /\ w' = x
        /\ ret2' = percvarWide(x)
        /\ s' = percvarWide(x).pv
        /\ p' = DecimalWide(q)
        /\ k' = perck(percvarWide(x).pv, DecimalWide(q))
    /\ pc' = "example"
    /\ UNCHANGED <<v, ret, c, text>>

Next ==
    \/ Percvar
    \/ Perck
    \/ PerckDirect
    \/ PercvarScaled
    \/ PercvarDivided
    \/ PercvarAgain
    \/ PercvarPermuted
    \/ WorkedExample

Spec == Init /\ [][Next]_vars

---------------------------------------------------------------------------
(* The cells of the text-classification notebook, run in order.            *)

TextInit ==
    /\ v = <<>>
    /\ pc = "start"
    /\ ret = NoRet
    /\ w = <<>>
    /\ c = One
    /\ ret2 = NoRet
    /\ s = <<>>
    /\ p = 0
    /\ k = 0
    /\ \E train \in Files(MaxTrainLines), test \in Files(MaxTestLines) :
        TextStart(train, test)

\* the loading cell: every line of data/train.dat is printed, every line of
\* data/test.dat is split at the tabs and appended
LoadData ==
    /\ cell = "new"
    /\ training_data' = LoadTrain(train_dat)
    /\ stdout' = stdout \o train_dat
    /\ testing_data' = LoadTest(test_dat)
    /\ cell' = "loaded"
    /\ UNCHANGED <<numeric, train_dat, test_dat, raised, train_list,
                   training_list, given_class, test_list, testing_list,
                   train_features, test_features, features, tf, training_M,
                   testing_M, output>>

\* the cell that builds the lists; an exception in the first loop ends the
\* cell before test_list is assigned
BuildLists ==
    /\ cell = "loaded"
    /\ given_class' = BuildTrain(training_data).given_class
    /\ training_list' = BuildTrain(training_data).training_list
    /\ train_list' = BuildTrain(training_data).train_list
    /\ raised' = BuildTrain(training_data).raised
    /\ IF BuildTrain(training_data).raised # NoError
       THEN /\ cell' = "lists failed"
            /\ UNCHANGED <<test_list, testing_list>>
       ELSE /\ cell' = "listed"
            /\ test_list' = BuildTest(testing_data).test_list
            /\ testing_list' = BuildTest(testing_data).testing_list
    /\ UNCHANGED <<numeric, train_dat, test_dat, stdout, training_data,
                   testing_data, train_features, test_features, features,
                   tf, training_M, testing_M, output>>

\* train_features=select_feature(training_list), and the same for the test
SelectFeatures ==
    /\ cell = "listed"
    /\ train_features' = select_feature(training_list)
    /\ test_features' = select_feature(testing_list)
    /\ cell' = "collected"
    /\ UNCHANGED <<numeric, train_dat, test_dat, stdout, raised,
                   training_data, testing_data, train_list, training_list,
                   given_class, test_list, testing_list, features, tf,
                   training_M, testing_M, output>>

\* features=train_features.intersection(test_features)
Intersect ==
    /\ cell = "collected"
    /\ features' = intersection(train_features, test_features)
    /\ cell' = "intersected"
    /\ UNCHANGED <<numeric, train_dat, test_dat, stdout, raised,
                   training_data, testing_data, train_list, training_list,
                   given_class, test_list, testing_list, train_features,
                   test_features, tf, training_M, testing_M, output>>

\* tf = TfidfVectorizer(norm='l2', vocabulary=list(features)): the
\* constructor keeps the list and looks at it only when fitting
Vectorizer ==
    /\ cell = "intersected"
    /\ tf' \in Lists(features)
    /\ cell' = "vectorized"
    /\ UNCHANGED <<numeric, train_dat, test_dat, stdout, raised,
                   training_data, testing_data, train_list, training_list,
                   given_class, test_list, testing_list, train_features,
                   test_features, features, training_M, testing_M, output>>

\* the fit_transform cell: both matrices and the two printed lengths of
\* get_feature_names(), or the exception of the first fit_transform
FitTransform ==
    /\ cell = "vectorized"
    /\ IF fit_transform(tf, train_list).raised # NoError
       THEN /\ raised' = fit_transform(tf, train_list).raised
            /\ cell' = "fit failed"
            /\ UNCHANGED <<training_M, testing_M, stdout>>
       ELSE /\ training_M' = [nrows |-> fit_transform(tf, train_list).nrows,
                              ncols |-> fit_transform(tf, train_list).ncols]
            /\ testing_M' = [nrows |-> fit_transform(tf, test_list).nrows,
                             ncols |-> fit_transform(tf, test_list).ncols]
            /\ stdout' = stdout \o <<Len(tf), Len(tf)>>
            /\ cell' = "fitted"
            /\ UNCHANGED raised
    /\ UNCHANGED <<numeric, train_dat, test_dat, training_data,
                   testing_data, train_list, training_list, given_class,
                   test_list, testing_list, train_features, test_features,
                   features, tf, output>>

\* countValues(output), which no cell calls: on any list of predictions,
\* in a session that has loaded nothing
CountValues ==
    /\ cell = "new"
    /\ train_dat = <<>> /\ test_dat = <<>>
    /\ \E o \in Outputs :
        /\ output' = o
        /\ stdout' = stdout \o <<countValues(o).one, countValues(o).zero>>
    /\ cell' = "counted"
    /\ UNCHANGED <<numeric, train_dat, test_dat, raised, training_data,
                   testing_data, train_list, training_list, given_class,
                   test_list, testing_list, train_features, test_features,
                   features, tf, training_M, testing_M>>

TextNext ==
    \/ LoadData
    \/ BuildLists
    \/ SelectFeatures
    \/ Intersect
    \/ Vectorizer
    \/ FitTransform
    \/ CountValues

TextSpec == TextInit /\ [][TextNext]_vars


---------------------------------------------------------------------------
(* What the claims are stated with.                                        *)

\* percvar(v) has returned
Returned == pc \in {"called", "selected", "scaled", "divided", "again"}

HasNonZero(x) == \E i \in 1..Len(x) : x[i] # 0

\* the input of the variance claims: not empty, some entry not zero
Proper(x) == Len(x) >= 1 /\ HasNonZero(x)

Abs(n) == IF n < 0 THEN 0 - n ELSE n

\* the i-th largest absolute value of x, by counting and not by sorting
KthLargestAbs(x, i) ==
    CHOOSE a \in {FAbs(x[j]) : j \in 1..Len(x)} :
        /\ Cardinality({j \in 1..Len(x) : FAbs(x[j]) > a}) < i
        /\ i <= Cardinality({j \in 1..Len(x) : FAbs(x[j]) >= a})

\* the sum of the n largest absolute values of x, largest first, in floats
RECURSIVE SumLargestAbs(_, _)
SumLargestAbs(x, n) ==
    IF n = 0 THEN 0 ELSE FAdd(SumLargestAbs(x, n - 1), KthLargestAbs(x, n))

\* x[1] + ... + x[i] in floats, left to right
RECURSIVE PrefixSum(_, _)
PrefixSum(x, i) == IF i = 0 THEN 0 ELSE FAdd(PrefixSum(x, i - 1), x[i])

\* x[1] + ... + x[i] exactly, in units
RECURSIVE ExactSum(_, _)
ExactSum(x, i) == IF i = 0 THEN 0 ELSE ExactSum(x, i - 1) + x[i]

\* the float sum of the absolute values of x did not overflow
SumFinite(x) == SumLargestAbs(x, Len(x)) # Inf

\* |a - b| <= n * m * 2^-P (m roundings on each of n entries, relative to
\* 1.0) + n units (n results that underflowed), a and b in units
Within(a, b, n, m) == (Abs(a - b) - n) * Pow2(P) <= n * m * One

---------------------------------------------------------------------------
(* C1: for a non-empty vector v with a non-zero entry, percvar(v) returns  *)
(* (percents, cumulative) with percents[i] the i-th largest absolute value *)
(* of v divided by the sum of the absolute values of v, and cumulative[i]  *)
(* = percents[0] + ... + percents[i], for every i; division and sums are   *)
(* the floating-point ones, the sum taken from the largest value down.     *)
C1_PercvarContract ==
    (Returned /\ Proper(v)) =>
        /\ Len(ret.pct) = Len(v)
        /\ Len(ret.pv) = Len(v)
        /\ \A i \in 1..Len(v) :
            /\ ret.pct[i] = FDiv(KthLargestAbs(v, i), SumLargestAbs(v, Len(v)))
            /\ ret.pv[i] = PrefixSum(ret.pct, i)

\* percvar([1.0, 2.0, -3.0]) = ([.5, .328, .164], [.5, .8125, .96875])
C1_Witness ==
    /\ pc = "called"
    /\ v = <<One, 2 * One, 0 - 3 * One>>
    /\ ret.pct[1] = One \div 2
    /\ ret.pct[3] < ret.pct[2]
    /\ ret.pv[3] < One

---------------------------------------------------------------------------
\* perck(s, p) has returned
Selected == pc \in {"selected", "direct"}

(* C2: for a vector s of length n >= 1 and a target p that some entry of s *)
(* reaches, perck(s, p) returns the smallest 1-based index k with          *)
(* s[k-1] >= p: s[k-1] >= p, and s[j] < p for every j < k-1.               *)
C2_PerckSmallestIndex ==
    (Selected /\ Len(s) >= 1 /\ \E i \in 1..Len(s) : s[i] # NaN /\ s[i] >= p) =>
        /\ k \in 1..Len(s)
        /\ s[k] # NaN /\ s[k] >= p
        /\ \A j \in 1..(k - 1) : s[j] # NaN /\ s[j] < p

\* perck([.328, .656, 1.0], 0.5) = 2
C2_Witness ==
    /\ pc = "selected"
    /\ Len(s) = 3
    /\ p = One \div 2
    /\ k = 2
    /\ s[1] < p /\ s[2] > p

---------------------------------------------------------------------------
(* C3 as stated: for a non-empty vector v with a non-zero entry, the       *)
(* percents of percvar(v) sum to 1, are all non-negative and are in        *)
(* non-increasing order.  The sum is read both ways, exact and np.sum.     *)
C3_AsStated ==
    (Returned /\ Proper(v)) =>
        /\ \/ ExactSum(ret.pct, Len(ret.pct)) = One
           \/ np_sum(ret.pct) = One
        /\ \A i \in 1..Len(ret.pct) : ret.pct[i] # NaN /\ ret.pct[i] >= 0
        /\ \A i \in 1..(Len(ret.pct) - 1) : ret.pct[i] >= ret.pct[i + 1]

(* C3, amended: the percents are all non-negative and in non-increasing    *)
(* order; when the sum of the absolute values of v does not overflow they  *)
(* sum to 1 up to rounding, |sum - 1| <= 2n * 2^-P (+ n units for entries  *)
(* that underflow), and to 0 when it overflows.                            *)
C3_PercentsNormalised ==
    (Returned /\ Proper(v)) =>
        /\ Len(ret.pct) = Len(v)
        /\ \A i \in 1..Len(ret.pct) : ret.pct[i] # NaN /\ ret.pct[i] >= 0
        /\ \A i \in 1..(Len(ret.pct) - 1) : ret.pct[i] >= ret.pct[i + 1]
        /\ SumFinite(v) =>
            /\ Within(ExactSum(ret.pct, Len(ret.pct)), One, Len(v), 2)
            /\ Within(np_sum(ret.pct), One, Len(v), 3)
        /\ ~SumFinite(v) => ExactSum(ret.pct, Len(ret.pct)) = 0

\* percvar([1.0, 2.0, -3.0]): percents .5, .328, .164 sum to .992
C3_Witness ==
    /\ pc = "called"
    /\ v = <<One, 2 * One, 0 - 3 * One>>
    /\ SumFinite(v)
    /\ ExactSum(ret.pct, 3) < One
    /\ ret.pct[1] > ret.pct[2] /\ ret.pct[2] > ret.pct[3] /\ ret.pct[3] > 0

---------------------------------------------------------------------------
(* C4 as stated: for a non-empty vector v with a non-zero entry, the       *)
(* cumulative vector of percvar(v) is non-decreasing and its final entry   *)
(* equals 1.                                                               *)
C4_AsStated ==
    (Returned /\ Proper(v)) =>
        /\ \A i \in 1..(Len(ret.pv) - 1) : ret.pv[i] <= ret.pv[i + 1]
        /\ ret.pv[Len(ret.pv)] = One

(* C4, amended: the cumulative vector is non-decreasing; when the sum of   *)
(* the absolute values of v does not overflow its final entry equals 1 up  *)
(* to rounding, |final - 1| <= 3n * 2^-P (+ n units), and it is 0 when the *)
(* sum overflows.                                                          *)
C4_CumulativeMonotone ==
    (Returned /\ Proper(v)) =>
        /\ Len(ret.pv) = Len(v)
        /\ \A i \in 1..Len(ret.pv) : ret.pv[i] # NaN /\ ret.pv[i] >= 0
        /\ \A i \in 1..(Len(ret.pv) - 1) : ret.pv[i] <= ret.pv[i + 1]
        /\ SumFinite(v) => Within(ret.pv[Len(ret.pv)], One, Len(v), 3)
        /\ ~SumFinite(v) => ret.pv[Len(ret.pv)] = 0

\* percvar([1.0, 2.0, -3.0]): cumulative .5, .8125, .96875
C4_Witness ==
    /\ pc = "called"
    /\ v = <<One, 2 * One, 0 - 3 * One>>
    /\ ret.pv[1] < ret.pv[2] /\ ret.pv[2] < ret.pv[3]
    /\ ret.pv[3] < One /\ ret.pv[3] > One - One \div 8

---------------------------------------------------------------------------
(* C5: if no entry of the vector s handed to perck is >= p (p > 1 on a     *)
(* cumulative vector, say), perck(s, p) returns the full length len(s),    *)
(* and the call returns: nothing is raised.                                *)
C5_PerckFallback ==
    (Selected /\ \A i \in 1..Len(s) : ~(s[i] # NaN /\ s[i] >= p)) =>
        k = Len(s)

\* perck of a three-entry cumulative vector at p = 1.5 is 3
C5_Witness ==
    /\ pc = "selected"
    /\ Len(s) = 3
    /\ p = One + One \div 2
    /\ s[3] # NaN /\ s[3] < p
    /\ k = 3

---------------------------------------------------------------------------
---------------------------------------------------------------------------
(* C7: percvar on a non-empty vector whose entries are all zero fails with *)
(* a DivisionByZero-class (arithmetic) error and returns no result.        *)
C7_AllZeroRaises ==
    (pc = "called" /\ Len(v) >= 1 /\ ~HasNonZero(v)) => ret.exc # "none"

---------------------------------------------------------------------------
(* C8: percvar on an empty vector fails with an InvalidInput-class error   *)
(* and returns no result.                                                  *)
C8_EmptyRaises ==
    (pc = "called" /\ Len(v) = 0) => ret.exc # "none"

---------------------------------------------------------------------------
\* n is a power of two
IsPowerOfTwo(n) == \E e \in 0..(P + EMax) : n = Pow2(e)

\* the scaled or divided vector w was made without overflow and without
\* underflow: its entries are finite, no non-zero entry of v became zero or
\* subnormal, and its absolute values still have a finite sum
ScaledInRange ==
    /\ Len(w) = Len(v)
    /\ \A i \in 1..Len(w) :
        /\ IsFinite(w[i])
        /\ v[i] # 0 => FAbs(w[i]) >= MinNormal
    /\ SumFinite(w)

\* the two results agree entry by entry up to rounding
CloseResults(r1, r2, n) ==
    /\ Len(r1.pct) = Len(r2.pct) /\ Len(r1.pv) = Len(r2.pv)
    /\ \A i \in 1..Len(r1.pct) :
        /\ r1.pct[i] # NaN /\ r2.pct[i] # NaN
        /\ Within(r1.pct[i], r2.pct[i], n, 4)
    /\ \A i \in 1..Len(r1.pv) :
        /\ r1.pv[i] # NaN /\ r2.pv[i] # NaN
        /\ Within(r1.pv[i], r2.pv[i], n, 6)

(* C9 as stated: for a vector v with a non-zero entry and a non-zero       *)
(* scalar c, percvar(c * v) returns the same percents and cumulative       *)
(* vectors as percvar(v); so does percvar(v / (m-1)).                      *)
C9_AsStated ==
    (pc \in {"scaled", "divided"} /\ Proper(v)) =>
        /\ ret2.pct = ret.pct
        /\ ret2.pv = ret.pv

(* C9, amended: when neither the sum of |v| nor the scaling overflows or   *)
(* underflows, percvar(c * v) and percvar(v / d) equal percvar(v) up to    *)
(* rounding: percents within 4n * 2^-P and cumulative values within        *)
(* 6n * 2^-P (+ n units); they are the same vectors when c is a power of   *)
(* two or its negative and no entry of v is subnormal.                     *)
C9_ScaleInvariance ==
    (pc \in {"scaled", "divided"} /\ Proper(v) /\ SumFinite(v) /\ ScaledInRange) =>
        /\ CloseResults(ret2, ret, Len(v))
        /\ ( /\ pc = "scaled"
             /\ IsPowerOfTwo(FAbs(c))
             /\ \A i \in 1..Len(v) : v[i] # 0 => FAbs(v[i]) >= MinNormal ) =>
                (ret2.pct = ret.pct /\ ret2.pv = ret.pv)

\* percvar(0.1 * v) differs from percvar(v) in its low bits for some v of
\* three entries, with nothing out of range
C9_Witness ==
    /\ pc = "scaled"
    /\ Proper(v) /\ SumFinite(v) /\ ScaledInRange
    /\ Len(v) = 3
    /\ c = Tenth
    /\ ret2.pct # ret.pct
    /\ CloseResults(ret2, ret, 3)

---------------------------------------------------------------------------
(* C10 as stated: for a vector v with a non-zero entry, if (percents,      *)
(* cumulative) = percvar(v) then percvar(percents) returns exactly         *)
(* (percents, cumulative) again.                                           *)
C10_AsStated ==
    (pc = "again" /\ Proper(v)) =>
        /\ ret2.pct = ret.pct
        /\ ret2.pv = ret.pv

(* C10, amended: when the sum of |v| does not overflow, percvar(percents)  *)
(* returns (percents, cumulative) up to rounding (within 4n * 2^-P and     *)
(* 6n * 2^-P), and exactly (percents, cumulative) when the floating-point  *)
(* sum of percents is exactly 1.0.                                         *)
C10_Idempotence ==
    (pc = "again" /\ Proper(v) /\ SumFinite(v)) =>
        /\ w = ret.pct
        /\ CloseResults(ret2, ret, Len(v))
        /\ np_sum(ret.pct) = One => (ret2.pct = ret.pct /\ ret2.pv = ret.pv)

\* percvar([1.0, 2.0, -3.0]): the percents sum to .96875 and change when
\* they are normalised again
C10_Witness ==
    /\ pc = "again"
    /\ v = <<One, 2 * One, 0 - 3 * One>>
    /\ np_sum(ret.pct) < One
    /\ ret2.pct # ret.pct

---------------------------------------------------------------------------
\* the rounding a cumulative entry of n percents can have gathered, in
\* units: 3n * 2^-P, rounded up, and n units
CumTol(n) == (3 * n * One + Pow2(P) - 1) \div Pow2(P) + n

(* C11 as stated: for every target p outside [0,1], perck(cumulative, p)   *)
(* is clamped to the full dimensionality: it returns n = len(cumulative)   *)
(* and raises nothing.                                                     *)
C11_AsStated ==
    (pc = "selected" /\ (p < 0 \/ p > One)) => k = Len(s)

(* C11, amended: perck raises nothing for any p.  For p above 1 (by more   *)
(* than the rounding of the cumulative vector) it returns n; for p below 0 *)
(* it returns 1, not n, unless the cumulative vector is empty or nan (then *)
(* it returns n).                                                          *)
C11_OutOfRangeTargets ==
    pc = "selected" =>
        /\ s = ret.pv
        /\ p > One + CumTol(Len(s)) => k = Len(s)
        /\ (p < 0 /\ Len(s) >= 1 /\ s[1] # NaN) => k = 1
        /\ (p < 0 /\ (Len(s) = 0 \/ s[1] = NaN)) => k = Len(s)

\* perck(cumulative, -0.5) = 1 on a cumulative vector of three entries
C11_Witness ==
    /\ pc = "selected"
    /\ Proper(v)
    /\ Len(s) = 3
    /\ p < 0
    /\ k = 1

---------------------------------------------------------------------------
(* C13: when some entry of s equals p exactly, perck takes the first index *)
(* i with s[i] >= p, and an entry equal to p counts: perck does not pass   *)
(* it for a strictly greater one.                                          *)
C13_InclusiveBound ==
    (Selected /\ \E i \in 1..Len(s) : s[i] = p) =>
        /\ k \in 1..Len(s)
        /\ \A i \in 1..Len(s) : s[i] = p => k <= i
        /\ s[k] >= p
        /\ \A j \in 1..(k - 1) : s[j] < p

\* perck(s, p) = k where s[k-1] = p and the next entry is greater
C13_Witness ==
    /\ Selected
    /\ k \in 1..(Len(s) - 1)
    /\ s[k] = p
    /\ s[k + 1] > p
    /\ \A j \in 1..(k - 1) : s[j] < p

---------------------------------------------------------------------------
(* C18: for every vector v of length n, both vectors percvar(v) returns    *)
(* have length n: no entry is dropped or merged, duplicates and zeros      *)
(* included.                                                               *)
C18_LengthKept ==
    /\ Returned => (Len(ret.pct) = Len(v) /\ Len(ret.pv) = Len(v))
    /\ pc \in {"scaled", "divided", "again", "permuted"} =>
        (Len(ret2.pct) = Len(w) /\ Len(ret2.pv) = Len(w))

\* percvar([1.0, 1.0, 0]) returns three percents and three running sums
C18_Witness ==
    /\ pc = "called"
    /\ v = <<One, One, 0>>
    /\ Len(ret.pct) = 3 /\ Len(ret.pv) = 3
    /\ ret.pct[1] = ret.pct[2] /\ ret.pct[3] = 0

---------------------------------------------------------------------------
(* C19: for every vector s of length n >= 1 and every p,                   *)
(* 1 <= perck(s, p) <= n; for the empty vector perck returns 0, which is   *)
(* no 1-based index, and raises nothing.                                   *)
C19_PerckRange ==
    Selected =>
        /\ Len(s) >= 1 => k \in 1..Len(s)
        /\ Len(s) = 0 => k = 0

\* perck([], p) = 0
C19_Witness ==
    /\ pc = "direct"
    /\ s = <<>>
    /\ p = One \div 2
    /\ k = 0

---------------------------------------------------------------------------
(* C20: perck is monotone in its target: for every vector s and targets    *)
(* p1 <= p2, perck(s, p1) <= perck(s, p2).                                 *)
C20_PerckMonotone ==
    Selected =>
        \A q \in Targets :
            /\ q <= p => perck(s, q) <= k
            /\ p <= q => k <= perck(s, q)

\* perck(s, 0.25) = 1 < perck(s, 1.0) = 3 on one vector s of three entries
C20_Witness ==
    /\ pc = "selected"
    /\ Len(s) = 3
    /\ p = One
    /\ k = 3
    /\ perck(s, One \div 4) = 1
    /\ s[3] >= One

---------------------------------------------------------------------------
(* C14: for every vector v with a non-zero entry, percvar(w) = percvar(v)  *)
(* for every w that is v with its entries permuted and/or their signs      *)
(* flipped: both returned vectors are the same, entry for entry.           *)
C14_PermutationSignInvariance ==
    (pc = "permuted" /\ Proper(v)) =>
        /\ ret2.pct = ret.pct
        /\ ret2.pv = ret.pv

\* percvar([1, -3, -2]) against percvar([1, 2, -3])
C14_Witness ==
    /\ pc = "permuted"
    /\ v = <<One, 2 * One, 0 - 3 * One>>
    /\ w = <<One, 0 - 3 * One, 0 - 2 * One>>
    /\ ret2.pct = <<One \div 2, ret.pct[2], ret.pct[3]>>

---------------------------------------------------------------------------
---------------------------------------------------------------------------
\* the sum of the j largest absolute values of x exactly, in units
RECURSIVE ExactTop(_, _)
ExactTop(x, j) ==
    IF j = 0 THEN 0 ELSE ExactTop(x, j - 1) + KthLargestAbs(x, j)

\* the least number of entries of x whose absolute values sum, exactly, to
\* q times the sum of all of them; Len(x) when q is above 1
LeastCount(x, q) ==
    LET reach == {j \in 1..Len(x) :
                    ExactTop(x, j) * One >= q * ExactTop(x, Len(x))}
    IN  IF reach = {} THEN Len(x)
        ELSE CHOOSE j \in reach : \A i \in reach : j <= i

(* C17 as stated: for every v with a non-zero entry and p in (0, 1],       *)
(* k = perck(percvar(v)[1], p) is the least number of components whose     *)
(* absolute values sum to at least p * sum(|v|): the k largest do, and no  *)
(* k - 1 entries do.                                                       *)
C17_AsStated ==
    (pc = "selected" /\ Proper(v) /\ p > 0 /\ p <= One) =>
        k = LeastCount(v, p)

(* C17, amended: k is the least count for the cumulative fractions as the  *)
(* floats give them.  When sum(|v|) does not overflow, it lies between the *)
(* exact least counts for p - t and for p + t, t = 3n * 2^-P (+ n units of *)
(* underflow) being the rounding of a cumulative entry; so it is the exact *)
(* least count whenever no exact fraction is within t of p.                *)
C17_LeastCountUpToRounding ==
    (pc = "selected" /\ Proper(v) /\ SumFinite(v) /\ p > 0 /\ p <= One) =>
        /\ LeastCount(v, p - CumTol(Len(v))) <= k
        /\ k <= LeastCount(v, p + CumTol(Len(v)))
        /\ LeastCount(v, p - CumTol(Len(v))) = LeastCount(v, p + CumTol(Len(v)))
            => k = LeastCount(v, p)

\* perck(percvar([1, 1, 1])[1], 1.0) = 3: two entries are 2/3 of the sum,
\* further than the rounding from 1.0, so 3 is the exact least count
C17_Witness ==
    /\ pc = "selected"
    /\ v = <<One, One, One>>
    /\ p = One
    /\ k = 3
    /\ LeastCount(v, p - CumTol(Len(v))) = 3
    /\ LeastCount(v, p + CumTol(Len(v))) = 3

---------------------------------------------------------------------------
(* C12: on v = [4.73, 2.51, 1.45, 0.92, 0.86, 0.65, 0.55, 0.10, 0.35,      *)
(* 0.17, 0.29, 0.23, 0.25], perck over the cumulative vector of percvar(v) *)
(* returns 2, 3, 5, 8, 10 for p = 0.40, 0.60, 0.80, 0.90, 0.95.            *)
C12_EigenvalueExample ==
    (pc = "example" /\ w = eig_vals) =>
        /\ p = DecimalWide(40) => k = 2
        /\ p = DecimalWide(60) => k = 3
        /\ p = DecimalWide(80) => k = 5
        /\ p = DecimalWide(90) => k = 8
        /\ p = DecimalWide(95) => k = 10

\* perck(cumulative, 0.95) = 10: the tenth running sum is the first to
\* reach 0.95
C12_Witness ==
    /\ pc = "example"
    /\ w = eig_vals
    /\ p = DecimalWide(95)
    /\ k = 10
    /\ s[9] < p /\ s[10] >= p

---------------------------------------------------------------------------
(* C16: on the singular values s = [28.94, 21.08, 16.04, 12.79, 12.32,     *)
(* 10.69, 9.90, 7.88, 7.17, 6.68, 6.34, 5.48, 4.29], perck over            *)
(* percvar(s) returns 3, 5, 9, 11, 12 for 40, 60, 80, 90 and 95 percent,   *)
(* and over percvar(s**2) it returns 2, 3, 5, 8, 10.                       *)
C16_SingularValueExample ==
    /\ (pc = "example" /\ w = sing_vals) =>
        /\ p = DecimalWide(40) => k = 3
        /\ p = DecimalWide(60) => k = 5
        /\ p = DecimalWide(80) => k = 9
        /\ p = DecimalWide(90) => k = 11
        /\ p = DecimalWide(95) => k = 12
    /\ (pc = "example" /\ w = Squared(sing_vals)) =>
        /\ p = DecimalWide(40) => k = 2
        /\ p = DecimalWide(60) => k = 3
        /\ p = DecimalWide(80) => k = 5
        /\ p = DecimalWide(90) => k = 8
        /\ p = DecimalWide(95) => k = 10

\* 80 percent takes 9 singular values but 5 squared ones: here the 5
C16_Witness ==
    /\ pc = "example"
    /\ w = Squared(sing_vals)
    /\ w # sing_vals
    /\ p = DecimalWide(80)
    /\ k = 5
    /\ perck(percvarWide(sing_vals).pv, p) = 9

---------------------------------------------------------------------------
(* The claims on the text-classification notebook, under TextSpec.         *)

\* the tokens that occur in some row of rows
TokensOf(rows) ==
    UNION {{rows[i][j] : j \in 1..Len(rows[i])} : i \in 1..Len(rows)}

\* the cells after which the feature sets, their intersection and the
\* vectorizer exist
Collected ==
    cell \in {"collected", "intersected", "vectorized", "fit failed", "fitted"}

Intersected == cell \in {"intersected", "vectorized", "fit failed", "fitted"}

Vectorized == cell \in {"vectorized", "fit failed", "fitted"}

---------------------------------------------------------------------------
\* the pieces put together again with sep between them
RECURSIVE Join(_, _)
Join(pieces, sep) ==
    IF Len(pieces) = 1 THEN pieces[1]
    ELSE Join(SubSeq(pieces, 1, Len(pieces) - 1), sep)
            \o <<sep>> \o pieces[Len(pieces)]

\* the loading cell has run; the list-building cell has run
Loaded == cell \notin {"new", "counted"}

Listed == cell \notin {"new", "counted", "loaded"}

(* C22: with the cells run in order, the loop over data/train.dat only     *)
(* prints its lines, so training_data is empty after the loading cell,     *)
(* whatever the file holds; given_class, training_list and train_list are  *)
(* then empty, train_features is empty and features is empty; and          *)
(* testing_data holds one entry per line of data/test.dat, the line split  *)
(* at its tabs.                                                            *)
C22_TrainingDataEmpty ==
    /\ Loaded =>
        /\ training_data = <<>>
        /\ SubSeq(stdout, 1, Len(train_dat)) = train_dat
        /\ Len(testing_data) = Len(test_dat)
        /\ \A i \in 1..Len(test_dat) :
            /\ Join(testing_data[i], "\t") = test_dat[i]
            /\ \A j \in 1..Len(testing_data[i]) :
                \A n \in 1..Len(testing_data[i][j]) :
                    testing_data[i][j][n] # "\t"
    /\ Listed =>
        /\ cell # "lists failed"
        /\ given_class = <<>>
        /\ training_list = <<>>
        /\ train_list = <<>>
    /\ Collected => train_features = {}
    /\ Intersected => features = {}

\* train.dat holds "1<tab>a b" and test.dat holds "a b" and "0<tab>b": the
\* files share tokens, training_data and features are empty, testing_data
\* has two entries
C22_Witness ==
    /\ cell = "intersected"
    /\ train_dat = << <<"1", "\t", "a", " ", "b", "\n">> >>
    /\ test_dat = << <<"a", " ", "b", "\n">>, <<"0", "\t", "b", "\n">> >>
    /\ training_data = <<>>
    /\ Len(testing_data) = 2
    /\ Len(testing_data[2]) = 2
    /\ test_features # {}
    /\ features = {}

---------------------------------------------------------------------------
(* C23 as stated: the fit_transform cell builds the training and the test  *)
(* matrix over the same vocabulary, so once it has run both exist and have *)
(* the same number of columns, the size of features.                       *)
C23_SameColumns ==
    cell \in {"fitted", "fit failed"} =>
        /\ cell = "fitted"
        /\ training_M.ncols = Cardinality(features)
        /\ testing_M.ncols = Cardinality(features)

---------------------------------------------------------------------------
(* C24: countValues(output) prints `one`, the number of entries equal to   *)
(* the string '1', and `zero`, the number of all other entries; the two    *)
(* add up to len(output).                                                  *)
C24_CountValuesPartition ==
    cell = "counted" =>
        /\ stdout = <<Cardinality({i \in 1..Len(output) : output[i] = "1"}),
                      Cardinality({i \in 1..Len(output) : output[i] # "1"})>>
        /\ stdout[1] + stdout[2] = Len(output)

\* countValues(['1', '-1', '1']) prints 2 and 1
C24_Witness ==
    /\ cell = "counted"
    /\ output = <<"1", "-1", "1">>
    /\ stdout = <<2, 1>>

=============================================================================
